---- MODULE Spec2Model ----
(***************************************************************************)
(* WebHDFS client (gruzovator/webhdfs-cpp): the protocol execution engine. *)
(* One Client (one UrlBuilder, one HttpClient owning one libcurl easy      *)
(* handle) runs the operations writeFile, readFile, makeDir, listDir,      *)
(* remove and rename one after the other against a gateway that may answer *)
(* anything.  One exchange (curl_easy_perform) is unfolded into the        *)
(* transport's callbacks: streamReadCallback for the request body and      *)
(* ReplyHandler::writeCallback for the response body.                      *)
(* The Client of the thread that is not running is kept in peer.           *)
(*                                                                         *)
(* Texts (bodies, messages, urls) are sequences of strings; one string     *)
(* stands for one byte of a payload or one lexical token of a JSON text.   *)
(***************************************************************************)
EXTENDS Integers, Sequences, FiniteSets, TLC

VARIABLES urlBuilder, curl, pc, op, req, reply, xfer, wire, dataSource, dataSink, result,
          written, process, peer

vars ==
    <<urlBuilder, curl, pc, op, req, reply, xfer, wire, dataSource, dataSink, result, written,
      process, peer>>

\* what belongs to the Client of the running thread and its call in progress
ownVars ==
    <<urlBuilder, curl, pc, op, req, reply, xfer, wire, dataSource, dataSink, result, written>>

\* the clients: the running thread's, and peer, the client of another thread
clientVars == <<ownVars, peer>>

(***************************************************************************)
(* Bounds of the model.                                                    *)
(***************************************************************************)
\* longest file payload, in bytes
MaxLen == 2
\* largest size*nitems the transport hands to a callback
BufCap == 2
\* most redirects the gateway chains in one auto-followed exchange
MaxHops == 1
\* the threads that construct a Client each
MaxThreads == 4
Threads == 1..MaxThreads

(***************************************************************************)
(* Program constants.                                                      *)
(***************************************************************************)
RESPONSE_CODE_CLIENT_ERROR == -1
HTTP_TEMPORARY_REDIRECT == 307
HTTP_CREATED == 201
HTTP_OK == 200
INT_MAX == 2147483647

Min(a, b) == IF a < b THEN a ELSE b

Bytes == {"a", "b"}

Payloads == UNION {[1..n -> Bytes] : n \in 0..MaxLen}

(***************************************************************************)
(* JSON texts, token by token, and Json::Reader / Json::Value (jsoncpp).   *)
(***************************************************************************)
StrOf ==
    [tok \in {"\"boolean\"", "\"RemoteException\"", "\"exception\"", "\"message\"",
              "\"AccessControlException\"", "\"Permission denied\"",
              "\"FileStatuses\"", "\"FileStatus\"", "\"accessTime\"", "\"blockSize\"",
              "\"group\"", "\"length\"", "\"modificationTime\"", "\"owner\"",
              "\"pathSuffix\"", "\"permission\"", "\"replication\"", "\"type\"",
              "\"FILE\"", "\"DIRECTORY\"", "\"SYMLINK\"", "\"hdfs\"", "\"staff\"",
              "\"f1\"", "\"d1\"", "\"644\"", "\"755\"", "\"extra\""} |->
       CASE tok = "\"boolean\"" -> "boolean"
         [] tok = "\"RemoteException\"" -> "RemoteException"
         [] tok = "\"exception\"" -> "exception"
         [] tok = "\"message\"" -> "message"
         [] tok = "\"AccessControlException\"" -> "AccessControlException"
         [] tok = "\"Permission denied\"" -> "Permission denied"
         [] tok = "\"FileStatuses\"" -> "FileStatuses"
         [] tok = "\"FileStatus\"" -> "FileStatus"
         [] tok = "\"accessTime\"" -> "accessTime"
         [] tok = "\"blockSize\"" -> "blockSize"
         [] tok = "\"group\"" -> "group"
         [] tok = "\"length\"" -> "length"
         [] tok = "\"modificationTime\"" -> "modificationTime"
         [] tok = "\"owner\"" -> "owner"
         [] tok = "\"pathSuffix\"" -> "pathSuffix"
         [] tok = "\"permission\"" -> "permission"
         [] tok = "\"replication\"" -> "replication"
         [] tok = "\"type\"" -> "type"
         [] tok = "\"FILE\"" -> "FILE"
         [] tok = "\"DIRECTORY\"" -> "DIRECTORY"
         [] tok = "\"SYMLINK\"" -> "SYMLINK"
         [] tok = "\"hdfs\"" -> "hdfs"
         [] tok = "\"staff\"" -> "staff"
         [] tok = "\"f1\"" -> "f1"
         [] tok = "\"d1\"" -> "d1"
         [] tok = "\"644\"" -> "644"
         [] tok = "\"755\"" -> "755"
         [] OTHER -> "extra"]

NumOf ==
    [tok \in {"0", "1", "3", "7", "128"} |->
       CASE tok = "0" -> 0
         [] tok = "1" -> 1
         [] tok = "3" -> 3
         [] tok = "7" -> 7
         [] OTHER -> 128]

JValue(t, b, n, s, keys, items) ==
    [t |-> t, b |-> b, n |-> n, s |-> s, keys |-> keys, items |-> items]

JNull == JValue("null", FALSE, 0, "", <<>>, <<>>)
JBool(b) == JValue("bool", b, 0, "", <<>>, <<>>)
JInt(n) == JValue("int", FALSE, n, "", <<>>, <<>>)
JString(s) == JValue("string", FALSE, 0, s, <<>>, <<>>)
JArray(items) == JValue("array", FALSE, 0, "", <<>>, items)
JObject(keys, items) == JValue("object", FALSE, 0, "", keys, items)
\* the outcome of a failed JSON_ASSERT inside Json::Value
JLogicError == JValue("logic_error", FALSE, 0, "", <<>>, <<>>)

TokenAt(toks, i) == IF i <= Len(toks) THEN toks[i] ELSE "<eof>"

RECURSIVE SkipSpaces(_, _)
SkipSpaces(toks, i) ==
    IF TokenAt(toks, i) = " " THEN SkipSpaces(toks, i + 1) ELSE i

KeyIndex(keys, k) ==
    IF \E j \in 1..Len(keys) : keys[j] = k
    THEN CHOOSE j \in 1..Len(keys) : keys[j] = k
    ELSE 0

RECURSIVE ReadValue(_, _)
RECURSIVE ReadObject(_, _, _, _)
RECURSIVE ReadArray(_, _, _)

\* Reader::readValue: [ok, v, i] with i the index after the value
ReadValue(toks, i0) ==
    LET i == SkipSpaces(toks, i0)
        tok == TokenAt(toks, i)
    IN  CASE tok = "{" -> ReadObject(toks, i + 1, <<>>, <<>>)
          [] tok = "[" ->
               IF TokenAt(toks, SkipSpaces(toks, i + 1)) = "]"
               THEN [ok |-> TRUE, v |-> JArray(<<>>), i |-> SkipSpaces(toks, i + 1) + 1]
               ELSE ReadArray(toks, i + 1, <<>>)
          [] tok = "true" -> [ok |-> TRUE, v |-> JBool(TRUE), i |-> i + 1]
          [] tok = "false" -> [ok |-> TRUE, v |-> JBool(FALSE), i |-> i + 1]
          [] tok = "null" -> [ok |-> TRUE, v |-> JNull, i |-> i + 1]
          [] tok \in DOMAIN StrOf -> [ok |-> TRUE, v |-> JString(StrOf[tok]), i |-> i + 1]
          [] tok \in DOMAIN NumOf -> [ok |-> TRUE, v |-> JInt(NumOf[tok]), i |-> i + 1]
          [] OTHER -> [ok |-> FALSE, v |-> JNull, i |-> i]

\* Reader::readObject, after the opening brace
ReadObject(toks, i0, keys, items) ==
    LET i == SkipSpaces(toks, i0)
        name == TokenAt(toks, i)
        bad == [ok |-> FALSE, v |-> JNull, i |-> i]
    IN  IF name = "}" /\ keys = <<>>
        THEN [ok |-> TRUE, v |-> JObject(keys, items), i |-> i + 1]
        ELSE IF name \notin DOMAIN StrOf
        THEN bad
        ELSE LET c == SkipSpaces(toks, i + 1)
             IN  IF TokenAt(toks, c) # ":"
                 THEN bad
                 ELSE LET r == ReadValue(toks, c + 1)
                          k == StrOf[name]
                          at == KeyIndex(keys, k)
                          keys1 == IF at = 0 THEN Append(keys, k) ELSE keys
                          items1 == IF at = 0 THEN Append(items, r.v)
                                    ELSE [items EXCEPT ![at] = r.v]
                          e == SkipSpaces(toks, r.i)
                      IN  IF ~r.ok
                          THEN bad
                          ELSE IF TokenAt(toks, e) = "}"
                          THEN [ok |-> TRUE, v |-> JObject(keys1, items1), i |-> e + 1]
                          ELSE IF TokenAt(toks, e) = ","
                          THEN ReadObject(toks, e + 1, keys1, items1)
                          ELSE bad

\* Reader::readArray, after the opening bracket of a non-empty array
ReadArray(toks, i0, items) ==
    LET r == ReadValue(toks, i0)
        e == SkipSpaces(toks, r.i)
        bad == [ok |-> FALSE, v |-> JNull, i |-> i0]
    IN  IF ~r.ok
        THEN bad
        ELSE IF TokenAt(toks, e) = "]"
        THEN [ok |-> TRUE, v |-> JArray(Append(items, r.v)), i |-> e + 1]
        ELSE IF TokenAt(toks, e) = ","
        THEN ReadArray(toks, e + 1, Append(items, r.v))
        ELSE bad

\* tryParseJson: Reader::parse reads one value and does not look behind it
tryParseJson(s) ==
    LET r == ReadValue(s, 1) IN [ok |-> r.ok, v |-> IF r.ok THEN r.v ELSE JNull]

\* Value::isMember on a null or object value
IsMember(v, key) ==
    v.t = "object" /\ KeyIndex(v.keys, key) # 0

\* the JSON_ASSERT of isMember, operator[] and get: a null or object value
IsObjectOrNull(v) == v.t \in {"object", "null"}

\* the JSON_ASSERT of asString: nothing that holds other values
IsConvertibleToString(v) == v.t \in {"string", "null", "bool", "int"}

\* Value::operator[](key) and Value::get(key, null)
Member(v, key) ==
    CASE v.t = "object" ->
           IF KeyIndex(v.keys, key) # 0 THEN v.items[KeyIndex(v.keys, key)] ELSE JNull
      [] v.t = "null" -> JNull
      [] OTHER -> JLogicError

\* Value::get(key, default)
Get(v, key, default) ==
    IF Member(v, key) = JNull THEN default ELSE Member(v, key)

NumText(n) ==
    IF \E tok \in DOMAIN NumOf : NumOf[tok] = n
    THEN CHOOSE tok \in DOMAIN NumOf : NumOf[tok] = n
    ELSE "<number>"

\* Value::asString
AsString(v) ==
    CASE v.t = "string" -> v.s
      [] v.t = "null" -> ""
      [] v.t = "bool" -> IF v.b THEN "true" ELSE "false"
      [] v.t = "int" -> NumText(v.n)
      [] OTHER -> "<logic_error>"

\* Value::asInt64, asUInt64 and asInt on the values a listing carries
AsInteger(v) ==
    CASE v.t = "int" -> v.n
      [] v.t = "bool" -> IF v.b THEN 1 ELSE 0
      [] OTHER -> 0

(***************************************************************************)
(* The bodies and urls the gateway and the caller may use.                 *)
(***************************************************************************)
NoUrl == <<>>

\* the literal both sides of the boolean-result check are compared with
BooleanTrue == <<"{", "\"boolean\"", ":", "true", "}">>
BooleanFalse == <<"{", "\"boolean\"", ":", "false", "}">>
BooleanSpaced == <<"{", "\"boolean\"", ":", " ", "true", "}">>
BooleanExtra == <<"{", "\"boolean\"", ":", "true", ",", "\"extra\"", ":", "1", "}">>
EmptyObject == <<"{", "}">>
EmptyArray == <<"[", "]">>
NotJson == <<"<html>">>
PermissionDenied ==
    <<"{", "\"RemoteException\"", ":", "{", "\"exception\"", ":",
      "\"AccessControlException\"", ",", "\"message\"", ":", "\"Permission denied\"",
      "}", "}">>

ControlBodies ==
    {<<>>, BooleanTrue, BooleanFalse, BooleanSpaced, BooleanExtra, EmptyObject, EmptyArray,
     NotJson, PermissionDenied}

\* the JSON text of a number and of a string
NumberText(n) == CHOOSE tok \in DOMAIN NumOf : NumOf[tok] = n
StringText(str) == CHOOSE tok \in DOMAIN StrOf : StrOf[tok] = str

\* one element of FileStatuses.FileStatus as the gateway holds it
Entry(at, bs, grp, len, mt, own, sfx, perm, repl, type) ==
    [accessTime |-> at, blockSize |-> bs, group |-> grp, length |-> len,
     modificationTime |-> mt, owner |-> own, pathSuffix |-> sfx, permission |-> perm,
     replication |-> repl, type |-> type]

FileEntry == Entry(7, 128, "staff", 3, 1, "hdfs", "f1", "644", 3, "FILE")
DirEntry == Entry(0, 0, "staff", 0, 7, "hdfs", "d1", "755", 0, "DIRECTORY")
LinkEntry == Entry(1, 0, "hdfs", 1, 1, "staff", "f1", "755", 1, "SYMLINK")

\* the element written out member by member
EntryText(e) ==
    <<"{", "\"accessTime\"", ":", NumberText(e.accessTime), ",",
      "\"blockSize\"", ":", NumberText(e.blockSize), ",",
      "\"group\"", ":", StringText(e.group), ",",
      "\"length\"", ":", NumberText(e.length), ",",
      "\"modificationTime\"", ":", NumberText(e.modificationTime), ",",
      "\"owner\"", ":", StringText(e.owner), ",",
      "\"pathSuffix\"", ":", StringText(e.pathSuffix), ",",
      "\"permission\"", ":", StringText(e.permission), ",",
      "\"replication\"", ":", NumberText(e.replication), ",",
      "\"type\"", ":", StringText(e.type), "}">>

RECURSIVE EntriesText(_)
EntriesText(entries) ==
    IF entries = <<>> THEN <<>>
    ELSE EntryText(Head(entries))
             \o (IF Len(entries) > 1 THEN <<",">> ELSE <<>>) \o EntriesText(Tail(entries))

\* the body of a well-formed listing
ListingText(entries) ==
    <<"{", "\"FileStatuses\"", ":", "{", "\"FileStatus\"", ":", "[">>
        \o EntriesText(entries) \o <<"]", "}", "}">>

Listings == {<<>>, <<FileEntry>>, <<FileEntry, DirEntry>>, <<LinkEntry, FileEntry>>}

ListingBodies == {ListingText(entries) : entries \in Listings}

DataNodeUrl == <<"http://datanode:50075/webhdfs/v1/f?op=CREATE&namenoderpcaddress=nn">>

RemotePaths == {<<"/", "d", " ", "f">>}
UserNames == {<<"alex">>}

(***************************************************************************)
(* UrlBuilder.                                                             *)
(***************************************************************************)
\* the letters and digits of ASCII that paths are made of here
AsciiAlnum == {"a", "b", "d", "f", "z", "A", "Z", "0", "9"}

\* the bytes above 127; as a char they are negative where char is signed
HighBytes == {"0xC3"}

\* the locales of the process: in "C" no byte above 127 is a letter, in
\* ISO-8859-1 0xC3 is one
Locales == {"C", "ISO-8859-1"}

\* isalnum(c) with c a char: the table of the current locale, also for the
\* negative values, which the C library is not required to accept
isalnum(c) == c \in AsciiAlnum \/ (c \in HighBytes /\ process.locale # "C")

\* the unsigned byte value of the other characters a path may hold
ByteValue ==
    [c \in {" ", "?", "&", "=", "#", "%", "0x0A", "0xC3"} |->
       CASE c = " " -> 32
         [] c = "0x0A" -> 10
         [] c = "?" -> 63
         [] c = "&" -> 38
         [] c = "=" -> 61
         [] c = "#" -> 35
         [] c = "%" -> 37
         [] OTHER -> 195]

\* one digit as std::hex prints it (std::uppercase is not set)
HexDigit(d) ==
    <<"0", "1", "2", "3", "4", "5", "6", "7", "8", "9", "a", "b", "c", "d", "e", "f">>[d + 1]

\* as HexField, without setw(2)
HexField_NoPad(n) ==
    IF n < 16 THEN <<HexDigit(n)>> ELSE <<HexDigit(n \div 16), HexDigit(n % 16)>>

\* operator<< of an int under std::hex, setw(2) and fill '0'
HexField(n) ==
    IF n < 16 THEN <<"0", HexDigit(n)>> ELSE <<HexDigit(n \div 16), HexDigit(n % 16)>>

RECURSIVE urlEncode(_)
urlEncode(value) ==
    IF value = <<>>
    THEN <<>>
    ELSE LET c == Head(value)
         IN  (IF isalnum(c) \/ c \in {"-", "_", ".", "~", "/"}
              THEN <<c>>
              ELSE <<"%">> \o HexField(ByteValue[c]))
                 \o urlEncode(Tail(value))

UrlBuilderNew(host, port, userName) ==
    [m_prefix |-> <<"http://", host, ":", port, "/webhdfs/v1">>, m_userName |-> userName]

\* as makeUrl, writing the user.name parameter whatever the name is
makeUrl_AlwaysUser(ub, remotePath, operation) ==
    ub.m_prefix \o urlEncode(remotePath)
        \o <<"?user.name=">> \o ub.m_userName \o <<"&op=">> \o <<operation>>

makeUrl(ub, remotePath, operation) ==
    ub.m_prefix \o urlEncode(remotePath)
        \o (IF ub.m_userName = <<>> THEN <<"?op=">>
            ELSE <<"?user.name=">> \o ub.m_userName \o <<"&op=">>)
        \o <<operation>>

\* OptionsBase::toQueryString: m_options as the map iterates, by key
RECURSIVE toQueryString(_)
toQueryString(m_options) ==
    IF m_options = <<>>
    THEN <<>>
    ELSE <<Head(m_options)[1], Head(m_options)[2]>> \o toQueryString(Tail(m_options))

\* the options a caller may pass, as the setters leave m_options
WriteOptions ==
    {<<>>, <<<<"&overwrite=", "true">>>>,
     <<<<"&overwrite=", "false">>, <<"&permission=", "644">>>>}
ReadOptions == {<<>>, <<<<"&length=", "128">>, <<"&offset=", "7">>>>}
MakeDirOptions == {<<>>, <<<<"&permission=", "755">>>>}
RemoveOptions == {<<>>, <<<<"&recursive=", "true">>>>}

\* makeUrl with options: OptionsBase::toQueryString appended
makeUrlOpts(ub, remotePath, operation, query) ==
    makeUrl(ub, remotePath, operation) \o query

(***************************************************************************)
(* The caller's streams: std::istream and std::ostream.                    *)
(***************************************************************************)
\* a source holding data; when failing, reading the byte after failAt bytes
\* is a read error (badbit) instead of data or end of stream
IStream(data, failing, failAt) ==
    [data |-> data, pos |-> 0, failing |-> failing, failAt |-> failAt, state |-> "good"]

\* istream::read(buffer, n) followed by gcount()
IStreamRead(s, n) ==
    IF s.state # "good"
    THEN [stream |-> s, bytes |-> <<>>]
    ELSE LET limit == IF s.failing THEN s.failAt ELSE Len(s.data)
             k == Min(n, limit - s.pos)
         IN  [stream |-> [s EXCEPT !.pos = s.pos + k,
                                   !.state = IF k = n THEN "good"
                                             ELSE IF s.failing THEN "bad" ELSE "eof"],
              bytes |-> SubSeq(s.data, s.pos + 1, s.pos + k)]

\* a sink; when limited it takes room bytes and then fails (badbit)
OStream(limited, room) ==
    [content |-> <<>>, limited |-> limited, room |-> room, good |-> TRUE]

\* ostream::write(buffer, n)
OStreamWrite(s, bytes) ==
    IF ~s.good
    THEN s
    ELSE IF ~s.limited \/ Len(s.content) + Len(bytes) <= s.room
    THEN [s EXCEPT !.content = s.content \o bytes]
    ELSE [s EXCEPT !.content = s.content \o SubSeq(bytes, 1, s.room - Len(s.content)),
                   !.good = FALSE]

(***************************************************************************)
(* HttpClient: the easy handle, Request, Reply and the callbacks.          *)
(***************************************************************************)
Exception(error) == <<"WebHDFS client error: ">> \o error

curl_easy_strerror(code) ==
    CASE code = "CURLE_WRITE_ERROR" -> <<"Failed writing received data to disk/application">>
      [] code = "CURLE_OPERATION_TIMEDOUT" -> <<"Timeout was reached">>
      [] OTHER -> <<"No error">>

\* HttpClient(): a fresh easy handle; the options make() changes are kept
HttpClientNew ==
    [url |-> NoUrl, followlocation |-> FALSE, upload |-> FALSE, customrequest |-> "",
     infilesize |-> -1, httpheader |-> <<>>, readdata |-> "null"]

ReplyNew ==
    [responseCode |-> 0, unexpectedResponseContent |-> <<>>, clientError |-> <<>>,
     redirectUrl |-> NoUrl]

Request(type, url, followRedirect, pDataSink, pDataSource, expectedResponseCode) ==
    [type |-> type, url |-> url, followRedirect |-> followRedirect, pDataSink |-> pDataSink,
     pDataSource |-> pDataSource, expectedResponseCode |-> expectedResponseCode]

setHttpHeaders(h, headers) == [h EXCEPT !.httpheader = headers]

\* as MakeSetupThrows, for a switch without the POST case
MakeSetupThrows_Never(rq) == FALSE

\* make(), the switch on the request type: the case that throws
MakeSetupThrows(rq) == rq.type = "POST"

\* as call_once, with a plain flag that is tested and set afterwards
call_once_PlainFlag(flag) == IF flag = "set" THEN "return" ELSE "run"

\* std::call_once(curlInitFlag, f) as a caller meets the flag: it runs f (an
\* active execution), waits for the active execution of another caller, or
\* returns because an execution has returned
call_once(flag) ==
    CASE flag = "clear" -> "run"
      [] flag = "running" -> "wait"
      [] OTHER -> "return"

\* the process: the once flag of createCurlEaseHandle, the number of
\* curl_global_init calls that returned 0, and where each constructor is
Process(flag, inits, ctor) ==
    [curlInitFlag |-> flag, inits |-> inits, ctor |-> ctor, locale |-> "C"]

\* createCurlEaseHandle, entered from HttpClient(): call_once is reached
CallOnce(t) ==
    /\ process.ctor[t] = "start"
    /\ call_once(process.curlInitFlag) # "wait"
    /\ process' = IF call_once(process.curlInitFlag) = "run"
                  THEN [process EXCEPT !.curlInitFlag = "running",
                                       !.ctor[t] = "curl_global_init"]
                  ELSE [process EXCEPT !.ctor[t] = "curl_easy_init"]
    /\ UNCHANGED clientVars

\* the lambda: curl_global_init returns; a non-zero result is thrown out of
\* call_once, which leaves the flag clear for the next caller
GlobalInit(t) ==
    /\ process.ctor[t] = "curl_global_init"
    /\ \E failed \in BOOLEAN :
         process' = IF failed
                    THEN [process EXCEPT !.curlInitFlag = "clear", !.ctor[t] = "thrown"]
                    ELSE [process EXCEPT !.curlInitFlag = "set", !.inits = @ + 1,
                                         !.ctor[t] = "curl_easy_init"]
    /\ UNCHANGED clientVars

\* curl_easy_init and the check of its result
EasyInit(t) ==
    /\ process.ctor[t] = "curl_easy_init"
    /\ \E handle \in {"handle", "nullptr"} :
         process' = [process EXCEPT !.ctor[t] = IF handle = "nullptr" THEN "thrown"
                                                ELSE "constructed"]
    /\ UNCHANGED clientVars

\* make(), up to curl_easy_perform: the options set on the handle.
\* CURLOPT_HTTPGET switches upload off, CURLOPT_UPLOAD switches it on and
\* CURLOPT_CUSTOMREQUEST only replaces the verb; what is not set stays.
MakeSetup(h, rq) ==
    LET h1 == [h EXCEPT !.url = rq.url, !.followlocation = rq.followRedirect]
        h2 == CASE rq.type = "GET" ->
                     setHttpHeaders([h1 EXCEPT !.upload = FALSE], <<"Expect:">>)
                [] rq.type = "PUT" /\ rq.pDataSource = "null" ->
                     setHttpHeaders([h1 EXCEPT !.upload = TRUE, !.infilesize = 0],
                                    <<"Expect:", "Transfer-Encoding:">>)
                [] rq.type = "PUT" /\ rq.pDataSource # "null" ->
                     setHttpHeaders([h1 EXCEPT !.upload = TRUE, !.infilesize = -1],
                                    <<"Expect:", "Transfer-Encoding: chunked">>)
                [] rq.type = "DELETE" ->
                     setHttpHeaders([h1 EXCEPT !.customrequest = "DELETE"],
                                    <<"Expect:", "Transfer-Encoding:">>)
                [] OTHER -> h1
    IN  IF rq.pDataSource # "null" THEN [h2 EXCEPT !.readdata = rq.pDataSource] ELSE h2

\* what curl_easy_perform sends for the handle as it is set
WireVerb(h) ==
    IF h.customrequest # "" THEN h.customrequest ELSE IF h.upload THEN "PUT" ELSE "GET"

WireSendsBody(h) == h.upload /\ h.infilesize # 0

\* one request as it leaves: rq is the descriptor make() was given
WireRequest(h, rq, url) ==
    [req |-> rq, verb |-> WireVerb(h), url |-> url, headers |-> h.httpheader,
     body |-> WireSendsBody(h), infilesize |-> h.infilesize, follow |-> h.followlocation]

\* as streamReadCallback, returning 0 once the stream is no longer good
streamReadCallback_DropShort(pIStream, dataSize) ==
    LET r == IStreamRead(pIStream, dataSize)
    IN  [stream |-> r.stream,
         buffer |-> r.bytes \o [i \in 1..(dataSize - Len(r.bytes)) |-> "?"],
         ret |-> IF r.stream.state = "good" THEN Len(r.bytes) ELSE 0]

\* as streamReadCallback, reporting at most one byte of what it read
streamReadCallback_OneByte(pIStream, dataSize) ==
    LET r == IStreamRead(pIStream, dataSize)
    IN  [stream |-> r.stream,
         buffer |-> r.bytes \o [i \in 1..(dataSize - Len(r.bytes)) |-> "?"],
         ret |-> Min(Len(r.bytes), 1)]

\* streamReadCallback: the buffer as filled, and the count returned
streamReadCallback(pIStream, dataSize) ==
    LET r == IStreamRead(pIStream, dataSize)
    IN  [stream |-> r.stream,
         buffer |-> r.bytes \o [i \in 1..(dataSize - Len(r.bytes)) |-> "?"],
         ret |-> Len(r.bytes)]

\* as writeCallback, returning dataSize whatever the sink's state
writeCallback_IgnoreSinkFailure(rp, rq, sink, buffer, liveCode, getinfoOk) ==
    LET rp1 == IF rp.responseCode = 0 THEN [rp EXCEPT !.responseCode = liveCode] ELSE rp
    IN  IF rq.expectedResponseCode # rp1.responseCode
        THEN [reply |-> [rp1 EXCEPT !.unexpectedResponseContent = @ \o buffer],
              sink |-> sink, ret |-> Len(buffer)]
        ELSE [reply |-> rp1,
              sink |-> IF rq.pDataSink # "null" THEN OStreamWrite(sink, buffer) ELSE sink,
              ret |-> Len(buffer)]

\* as writeCallback, not keeping the bytes of a response of another status
writeCallback_DropUnexpected(rp, rq, sink, buffer, liveCode, getinfoOk) ==
    LET rp1 == IF rp.responseCode = 0 THEN [rp EXCEPT !.responseCode = liveCode] ELSE rp
        s1 == OStreamWrite(sink, buffer)
    IN  IF rq.expectedResponseCode # rp1.responseCode \/ rq.pDataSink = "null"
        THEN [reply |-> rp1, sink |-> sink, ret |-> Len(buffer)]
        ELSE [reply |-> rp1, sink |-> s1, ret |-> IF s1.good THEN Len(buffer) ELSE 0]

\* as writeCallback, handing the bytes of a response of another status to
\* the sink as well as to the diagnostic buffer
writeCallback_TeeUnexpected(rp, rq, sink, buffer, liveCode, getinfoOk) ==
    LET rp1 == IF rp.responseCode = 0 THEN [rp EXCEPT !.responseCode = liveCode] ELSE rp
        s1 == IF rq.pDataSink # "null" THEN OStreamWrite(sink, buffer) ELSE sink
    IN  IF rq.expectedResponseCode # rp1.responseCode
        THEN [reply |-> [rp1 EXCEPT !.unexpectedResponseContent = @ \o buffer],
              sink |-> s1, ret |-> Len(buffer)]
        ELSE [reply |-> rp1, sink |-> s1, ret |-> IF s1.good THEN Len(buffer) ELSE 0]

\* ReplyHandler::writeCallback on one buffer; liveCode is what
\* CURLINFO_RESPONSE_CODE holds, getinfoOk whether curl_easy_getinfo succeeds
writeCallback(rp, rq, sink, buffer, liveCode, getinfoOk) ==
    IF rp.responseCode = 0 /\ ~getinfoOk
    THEN [reply |-> [rp EXCEPT !.responseCode = RESPONSE_CODE_CLIENT_ERROR,
                               !.clientError = <<"libcurl getinfo failed">>],
          sink |-> sink, ret |-> 0]
    ELSE LET rp1 == IF rp.responseCode = 0 THEN [rp EXCEPT !.responseCode = liveCode] ELSE rp
         IN  IF rq.expectedResponseCode # rp1.responseCode
             THEN [reply |-> [rp1 EXCEPT !.unexpectedResponseContent = @ \o buffer],
                   sink |-> sink, ret |-> Len(buffer)]
             ELSE IF rq.pDataSink # "null"
             THEN LET s1 == OStreamWrite(sink, buffer)
                  IN  [reply |-> rp1, sink |-> s1, ret |-> IF s1.good THEN Len(buffer) ELSE 0]
             ELSE [reply |-> rp1, sink |-> sink, ret |-> Len(buffer)]

RemoteError(exceptionValue) ==
    [ok |-> TRUE,
     asserts |-> \/ ~IsObjectOrNull(exceptionValue)
                 \/ ~IsConvertibleToString(Member(exceptionValue, "exception"))
                 \/ ~IsConvertibleToString(Member(exceptionValue, "message")),
     type |-> AsString(Get(exceptionValue, "exception", JString("Unknown"))),
     message |-> AsString(Get(exceptionValue, "message", JString("")))]

\* the exception a failed JSON_ASSERT leaves make() with (or the abort of
\* the process, where the library is built without exceptions)
JsonLogicError == <<"Json::LogicError">>

RemoteErrorOf(parsed) ==
    IF parsed.ok /\ ~IsObjectOrNull(parsed.v)
    THEN [ok |-> FALSE, asserts |-> TRUE, type |-> "", message |-> ""]
    ELSE IF parsed.ok /\ IsMember(parsed.v, "RemoteException")
    THEN RemoteError(Member(parsed.v, "RemoteException"))
    ELSE [ok |-> FALSE, asserts |-> FALSE, type |-> "", message |-> ""]

\* tryParseRemoteError
tryParseRemoteError(s) == RemoteErrorOf(tryParseJson(s))

CodeText(code) ==
    CASE code = HTTP_OK -> "200"
      [] code = HTTP_CREATED -> "201"
      [] code = HTTP_TEMPORARY_REDIRECT -> "307"
      [] code = 403 -> "403"
      [] OTHER -> "0"

\* as CheckRemoteError, with the comparison of the status left out
CheckRemoteError_NoCheck(rq, rp, remoteError) ==
    [thrown |-> FALSE, reply |-> rp, what |-> <<>>]

\* make(), the "check remote error" block: rp is the reply as completed
CheckRemoteError(rq, rp, remoteError) ==
    IF rp.responseCode # rq.expectedResponseCode
    THEN [thrown |-> TRUE, reply |-> rp,
          what |-> IF remoteError.asserts
                   THEN JsonLogicError
                   ELSE IF remoteError.ok
                   THEN Exception(<<"remote error: ", remoteError.message>>)
                   ELSE Exception(
                          <<"unexpected server response code: ", CodeText(rp.responseCode)>>
                          \o (IF rp.unexpectedResponseContent # <<>>
                              THEN <<" (">> \o rp.unexpectedResponseContent \o <<")">>
                              ELSE <<>>))]
    ELSE [thrown |-> FALSE, reply |-> rp, what |-> <<>>]

\* make(), after curl_easy_perform: x is the exchange as it ended
MakeReturn(rq, rp, x) ==
    IF x.code # "CURLE_OK"
    THEN [thrown |-> TRUE, reply |-> rp,
          what |-> IF rp.responseCode = RESPONSE_CODE_CLIENT_ERROR
                   THEN Exception(rp.clientError)
                   ELSE Exception(curl_easy_strerror(x.code))]
    ELSE CheckRemoteError(
             rq,
             [rp EXCEPT !.responseCode = x.status,
                        !.redirectUrl = IF ~rq.followRedirect THEN x.location ELSE NoUrl],
             tryParseRemoteError(rp.unexpectedResponseContent))

(***************************************************************************)
(* One exchange: curl_easy_perform between the handle, the gateway and the *)
(* callbacks.                                                              *)
(***************************************************************************)
Statuses == {HTTP_OK, HTTP_CREATED, HTTP_TEMPORARY_REDIRECT, 403}

\* the bodies the gateway answers an operation's request with
GatewayBodies(name) ==
    ControlBodies \cup (IF name = "listDir" THEN ListingBodies ELSE {})
        \cup (IF name = "readFile" THEN Payloads ELSE {})

\* what the last call wrote, when it was a writeFile that succeeded on a source
\* that delivered all its data: the data, and what the gateway received
NoFile == [set |-> FALSE, data |-> <<>>, stored |-> <<>>]
NoResult == [op |-> "none", ok |-> FALSE, what |-> <<>>, files |-> <<>>]
NoStream == OStream(FALSE, 0)

XferNew(sending) ==
    [phase |-> IF sending THEN "send" ELSE "wait", sent |-> <<>>, status |-> 0,
     body |-> <<>>, pos |-> 0, location |-> NoUrl, hops |-> 0, ignored |-> FALSE,
     code |-> "CURLE_OK"]

\* make(rq) entered: the handle is set and curl_easy_perform starts
StartMake(rq, log) ==
    /\ curl' = MakeSetup(curl, rq)
    /\ req' = rq
    /\ reply' = ReplyNew
    /\ xfer' = XferNew(WireSendsBody(MakeSetup(curl, rq)))
    /\ wire' = Append(log, WireRequest(MakeSetup(curl, rq), rq, rq.url))

\* the source passed by reference is the caller's again once the call is over
Release(h) == IF h.readdata = "caller" THEN [h EXCEPT !.readdata = "stale"] ELSE h

\* the operation returns (ok) or raises what
Finish(ok, what, files, rp) ==
    /\ pc' = "returned"
    /\ result' = [op |-> op.name, ok |-> ok, what |-> what, files |-> files]
    /\ reply' = rp
    /\ curl' = Release(curl)
    /\ UNCHANGED <<peer, process, urlBuilder, op, req, xfer, wire, dataSource, dataSink>>

\* the transport asks for request body bytes (CURLOPT_READFUNCTION)
ReadCallback ==
    /\ pc = "perform"
    /\ xfer.phase = "send"
    /\ \E dataSize \in 1..BufCap :
         IF curl.readdata = "caller"
         THEN LET r == streamReadCallback(dataSource, dataSize)
              IN  /\ dataSource' = r.stream
                  /\ xfer' = IF r.ret = 0
                             THEN [xfer EXCEPT !.phase = "wait"]
                             ELSE [xfer EXCEPT !.sent = @ \o SubSeq(r.buffer, 1, r.ret)]
         ELSE \* CURLOPT_READDATA still points at an earlier call's source: the
              \* read gives any bytes or none, or never comes back (the
              \* process is killed on the dangling pointer, or the stream that
              \* is there now blocks)
              \E k \in 0..dataSize, comesBack \in BOOLEAN :
                  /\ Len(xfer.sent) + k <= MaxLen
                  /\ ~comesBack => k = 0
                  /\ dataSource' = dataSource
                  /\ xfer' = IF ~comesBack
                             THEN [xfer EXCEPT !.phase = "fault"]
                             ELSE IF k = 0
                             THEN [xfer EXCEPT !.phase = "wait"]
                             ELSE [xfer EXCEPT !.sent = @ \o [i \in 1..k |-> "?"]]
    /\ UNCHANGED <<peer, process, urlBuilder, curl, pc, op, req, reply, wire, dataSink, result,
                   written>>

\* the gateway answers; a redirect the handle follows is taken by the
\* transport itself and its body is not handed to the write callback.  For
\* an empty body the transport may call the write callback once with zero
\* bytes (zeroCall) or not at all.
Receive(bodies) ==
    /\ pc = "perform"
    /\ xfer.phase = "wait"
    /\ \E st \in Statuses, hasLocation \in BOOLEAN, body \in bodies, zeroCall \in BOOLEAN :
         /\ hasLocation => st = HTTP_TEMPORARY_REDIRECT
         /\ zeroCall => body = <<>> /\ ~(curl.followlocation /\ hasLocation)
         /\ IF curl.followlocation /\ hasLocation
            THEN /\ xfer.hops < MaxHops
                 /\ xfer' = [xfer EXCEPT !.hops = @ + 1,
                                         !.ignored = @ \/ body # <<>>]
                 /\ wire' = Append(wire, WireRequest(curl, req, DataNodeUrl))
            ELSE /\ xfer' = [xfer EXCEPT !.status = st, !.body = body,
                                         !.location = IF hasLocation THEN DataNodeUrl
                                                      ELSE NoUrl,
                                         !.phase = IF body = <<>> /\ ~zeroCall THEN "done"
                                                   ELSE "recv"]
                 /\ wire' = wire
    /\ UNCHANGED <<peer, process, urlBuilder, curl, pc, op, req, reply, dataSource, dataSink,
                   result, written>>

ReceiveResponse == Receive(GatewayBodies(op.name))

\* the transport hands response body bytes on (CURLOPT_WRITEFUNCTION); a
\* count returned that differs from the size of the buffer ends the exchange
\* with CURLE_WRITE_ERROR
WriteCallback ==
    /\ pc = "perform"
    /\ xfer.phase = "recv"
    /\ \E n \in (IF xfer.body = <<>> THEN {0} ELSE 1..Min(BufCap, Len(xfer.body) - xfer.pos)),
          getinfoOk \in BOOLEAN :
         /\ ~getinfoOk => reply.responseCode = 0
         /\ LET buffer == SubSeq(xfer.body, xfer.pos + 1, xfer.pos + n)
                r == writeCallback(reply, req, dataSink, buffer, xfer.status, getinfoOk)
            IN  /\ reply' = r.reply
                /\ dataSink' = r.sink
                /\ xfer' = IF r.ret = Len(buffer)
                           THEN [xfer EXCEPT !.pos = @ + n,
                                             !.phase = IF xfer.pos + n = Len(xfer.body)
                                                       THEN "done" ELSE "recv"]
                           ELSE [xfer EXCEPT !.code = "CURLE_WRITE_ERROR", !.phase = "done"]
    /\ UNCHANGED <<peer, process, urlBuilder, curl, pc, op, req, wire, dataSource, result,
                   written>>

\* the transport gives up: connection, DNS or timeout failure
TransportFail ==
    /\ pc = "perform"
    /\ xfer.phase \in {"send", "wait", "recv"}
    /\ xfer' = [xfer EXCEPT !.code = "CURLE_OPERATION_TIMEDOUT", !.phase = "done"]
    /\ UNCHANGED <<peer, process, urlBuilder, curl, pc, op, req, reply, wire, dataSource,
                   dataSink, result, written>>

(***************************************************************************)
(* Client: the operations.                                                 *)
(***************************************************************************)
\* most bytes of a remote path where paths vary
MaxPathLen == 2

\* the bytes such a path is made of
PathBytes == {"a", "Z", "9", "/", "~", ".", " ", "?", "&", "=", "#", "%", "0x0A", "0xC3"}

Paths == UNION {[1..n -> PathBytes] : n \in 0..MaxPathLen}

\* the new paths rename is called with where paths vary
Destinations == RemotePaths \cup {<<>>, <<"&", "=">>, <<"%", "0xC3">>, <<"/", "a">>}

\* the call in progress; first is what the gateway answered to writeFile's step 1
Operation(name, step, path) ==
    [name |-> name, step |-> step, path |-> path, first |-> [status |-> 0, location |-> NoUrl]]

\* the variables of a call while no call is in progress
NoSource == IStream(<<>>, FALSE, 0)
NoOperation == Operation("none", 1, <<>>)
NoRequest == Request("GET", NoUrl, FALSE, "null", "null", 0)
NoXfer == [XferNew(FALSE) EXCEPT !.phase = "none"]

\* the call starts a new operation: what the last one left is dropped
Enter(name, path, source, sink) ==
    /\ pc = "idle"
    /\ pc' = "perform"
    /\ op' = Operation(name, 1, path)
    /\ dataSource' = source
    /\ dataSink' = sink
    /\ result' = NoResult
    /\ UNCHANGED <<peer, process, urlBuilder>>

\* writeFile, step 1: the body-less CREATE request
writeFileCall(path, source, opts) ==
    /\ Enter("writeFile", path, source, NoStream)
    /\ StartMake(Request("PUT", makeUrlOpts(urlBuilder, path, "CREATE", toQueryString(opts)),
                         FALSE, "null", "null", HTTP_TEMPORARY_REDIRECT), <<>>)
    /\ written' = NoFile

writeFile ==
    \E path \in RemotePaths, data \in Payloads, failing \in BOOLEAN, failAt \in 0..MaxLen :
        /\ failAt <= Len(data)
        /\ ~failing => failAt = 0
        /\ writeFileCall(path, IStream(data, failing, failAt), <<>>)

\* as writeFileAfter1, without the check of the redirect target
writeFileAfter1_NoRedirectCheck(m) ==
    IF m.thrown
    THEN Finish(FALSE, m.what, <<>>, m.reply) /\ UNCHANGED written
    ELSE /\ StartMake(Request("PUT", m.reply.redirectUrl, FALSE, "null", "caller",
                              HTTP_CREATED), wire)
         /\ op' = [op EXCEPT !.step = 2,
                            !.first = [status |-> xfer.status, location |-> xfer.location]]
         /\ UNCHANGED <<peer, process, urlBuilder, pc, dataSource, dataSink, result, written>>

\* as writeFileAfter1, going on to step 2 whenever a redirect target was seen
writeFileAfter1_IgnoreFailure(m) ==
    IF xfer.location = NoUrl
    THEN Finish(FALSE, IF m.thrown THEN m.what
                       ELSE Exception(<<"protocol error: no redirection to data node">>),
                <<>>, m.reply) /\ UNCHANGED written
    ELSE /\ StartMake(Request("PUT", xfer.location, FALSE, "null", "caller",
                              HTTP_CREATED), wire)
         /\ op' = [op EXCEPT !.step = 2,
                            !.first = [status |-> xfer.status, location |-> xfer.location]]
         /\ UNCHANGED <<peer, process, urlBuilder, pc, dataSource, dataSink, result, written>>

\* writeFile, after make(req1) gave m: the redirect check and step 2
writeFileAfter1(m) ==
    IF m.thrown
    THEN Finish(FALSE, m.what, <<>>, m.reply) /\ UNCHANGED written
    ELSE IF m.reply.redirectUrl = NoUrl
    THEN /\ Finish(FALSE, Exception(<<"protocol error: no redirection to data node">>),
                   <<>>, m.reply)
         /\ UNCHANGED written
    ELSE /\ StartMake(Request("PUT", m.reply.redirectUrl, FALSE, "null", "caller",
                              HTTP_CREATED), wire)
         /\ op' = [op EXCEPT !.step = 2,
                            !.first = [status |-> xfer.status, location |-> xfer.location]]
         /\ UNCHANGED <<peer, process, urlBuilder, pc, dataSource, dataSink, result, written>>

writeFileStep2 ==
    /\ pc = "perform"
    /\ xfer.phase = "done"
    /\ op.name = "writeFile"
    /\ op.step = 1
    /\ writeFileAfter1(MakeReturn(req, reply, xfer))

\* writeFile, after make(req2) gave m
writeFileAfter2(m) ==
    /\ Finish(~m.thrown, m.what, <<>>, m.reply)
    /\ written' = IF m.thrown \/ dataSource.state = "bad" THEN NoFile
                  ELSE [set |-> TRUE, data |-> dataSource.data, stored |-> xfer.sent]

writeFileEnd ==
    /\ pc = "perform"
    /\ xfer.phase = "done"
    /\ op.name = "writeFile"
    /\ op.step = 2
    /\ writeFileAfter2(MakeReturn(req, reply, xfer))

\* as readFileCall, leaving the redirect to the data node to the caller
readFileCall_NoFollow(path, sink, opts) ==
    /\ Enter("readFile", path, NoSource, sink)
    /\ StartMake(Request("GET", makeUrlOpts(urlBuilder, path, "OPEN", toQueryString(opts)),
                         FALSE, "caller", "null", HTTP_OK), <<>>)
    /\ UNCHANGED written

\* readFile: the GET op=OPEN request, redirects followed by the transport
readFileCall(path, sink, opts) ==
    /\ Enter("readFile", path, NoSource, sink)
    /\ StartMake(Request("GET", makeUrlOpts(urlBuilder, path, "OPEN", toQueryString(opts)),
                         TRUE, "caller", "null", HTTP_OK), <<>>)
    /\ UNCHANGED written

readFile ==
    \E path \in RemotePaths, limited \in BOOLEAN, room \in 0..MaxLen :
        /\ ~limited => room = 0
        /\ readFileCall(path, OStream(limited, room), <<>>)

\* readFile, after make(req) gave m
readFileAfter(m) ==
    /\ Finish(~m.thrown, m.what, <<>>, m.reply)
    /\ UNCHANGED written

readFileEnd ==
    /\ pc = "perform"
    /\ xfer.phase = "done"
    /\ op.name = "readFile"
    /\ readFileAfter(MakeReturn(req, reply, xfer))

makeDirCall(path, opts) ==
    /\ Enter("makeDir", path, NoSource, NoStream)
    /\ StartMake(Request("PUT", makeUrlOpts(urlBuilder, path, "MKDIRS", toQueryString(opts)),
                         FALSE, "oss", "null", HTTP_OK), <<>>)
    /\ written' = NoFile

makeDir == \E path \in RemotePaths : makeDirCall(path, <<>>)

\* makeDir, after make(req) gave m
makeDirAfter(m) ==
    /\ IF m.thrown
       THEN Finish(FALSE, m.what, <<>>, m.reply)
       ELSE IF m.reply.responseCode # req.expectedResponseCode
               \/ dataSink.content # BooleanTrue
       THEN Finish(FALSE,
                   Exception(<<"can't create dir ">> \o op.path \o <<", reply:">>
                                 \o dataSink.content),
                   <<>>, m.reply)
       ELSE Finish(TRUE, <<>>, <<>>, m.reply)
    /\ UNCHANGED written

makeDirEnd ==
    /\ pc = "perform"
    /\ xfer.phase = "done"
    /\ op.name = "makeDir"
    /\ makeDirAfter(MakeReturn(req, reply, xfer))

listDirCall(path) ==
    /\ Enter("listDir", path, NoSource, NoStream)
    /\ StartMake(Request("GET", makeUrl(urlBuilder, path, "LISTSTATUS"), TRUE,
                         "oss", "null", HTTP_OK), <<>>)
    /\ written' = NoFile

listDir == \E path \in RemotePaths : listDirCall(path)

\* the Json::Value conversions of one listing element that do not throw
StatusConverts(v) ==
    /\ v.t \in {"object", "null"}
    /\ \A k \in {"accessTime", "blockSize", "length", "modificationTime", "replication"} :
           Member(v, k).t \in {"int", "bool", "null"}
    /\ \A k \in {"group", "owner", "pathSuffix", "permission", "type"} :
           Member(v, k).t \in {"string", "int", "bool", "null"}
    /\ AsInteger(Member(v, "replication")) <= INT_MAX

\* as FileStatusOf, with owner and group taken from each other's member
FileStatusOf_Swapped(statusValue) ==
    [accessTime |-> AsInteger(Member(statusValue, "accessTime")),
     blockSize |-> AsInteger(Member(statusValue, "blockSize")),
     group |-> AsString(Member(statusValue, "owner")),
     length |-> AsInteger(Member(statusValue, "length")),
     modificationTime |-> AsInteger(Member(statusValue, "modificationTime")),
     owner |-> AsString(Member(statusValue, "group")),
     pathSuffix |-> AsString(Member(statusValue, "pathSuffix")),
     permission |-> AsString(Member(statusValue, "permission")),
     replication |-> AsInteger(Member(statusValue, "replication")),
     type |-> IF AsString(Member(statusValue, "type")) = "FILE" THEN "FILE"
              ELSE "DIRECTORY"]

\* the loop body of listDir: one FileStatus from one element
FileStatusOf(statusValue) ==
    [accessTime |-> AsInteger(Member(statusValue, "accessTime")),
     blockSize |-> AsInteger(Member(statusValue, "blockSize")),
     group |-> AsString(Member(statusValue, "group")),
     length |-> AsInteger(Member(statusValue, "length")),
     modificationTime |-> AsInteger(Member(statusValue, "modificationTime")),
     owner |-> AsString(Member(statusValue, "owner")),
     pathSuffix |-> AsString(Member(statusValue, "pathSuffix")),
     permission |-> AsString(Member(statusValue, "permission")),
     replication |-> AsInteger(Member(statusValue, "replication")),
     type |-> IF AsString(Member(statusValue, "type")) = "FILE" THEN "FILE"
              ELSE "DIRECTORY"]

\* the loop of listDir over items: begin() = end() for what is no container
FilesOf(items) ==
    IF items.t \notin {"array", "object"}
    THEN [thrown |-> FALSE, what |-> <<>>, files |-> <<>>]
    ELSE IF \E i \in 1..Len(items.items) : ~StatusConverts(items.items[i])
    THEN [thrown |-> TRUE, what |-> JsonLogicError, files |-> <<>>]
    ELSE [thrown |-> FALSE, what |-> <<>>,
          files |-> [i \in 1..Len(items.items) |-> FileStatusOf(items.items[i])]]

\* listingValue["FileStatuses"]["FileStatus"]: operator[] asserts an object or null
ItemsOf(listingValue) ==
    IF listingValue.t \notin {"object", "null"}
          \/ Member(listingValue, "FileStatuses").t \notin {"object", "null"}
    THEN [thrown |-> TRUE, what |-> JsonLogicError, files |-> <<>>]
    ELSE FilesOf(Member(Member(listingValue, "FileStatuses"), "FileStatus"))

\* listDir, from tryParseJson on
ListingOf(parsed) ==
    IF parsed.ok
    THEN ItemsOf(parsed.v)
    ELSE [thrown |-> TRUE, what |-> Exception(<<"Can't parse dir listing">>), files |-> <<>>]

ListDirReturn(l, rp) == Finish(~l.thrown, l.what, l.files, rp)

\* listDir, after make(req) gave m
listDirAfter(m) ==
    /\ IF m.thrown
       THEN Finish(FALSE, m.what, <<>>, m.reply)
       ELSE ListDirReturn(ListingOf(tryParseJson(dataSink.content)), m.reply)
    /\ UNCHANGED written

listDirEnd ==
    /\ pc = "perform"
    /\ xfer.phase = "done"
    /\ op.name = "listDir"
    /\ listDirAfter(MakeReturn(req, reply, xfer))

removeCall(path, opts) ==
    /\ Enter("remove", path, NoSource, NoStream)
    /\ StartMake(Request("DELETE",
                         makeUrlOpts(urlBuilder, path, "DELETE", toQueryString(opts)),
                         FALSE, "oss", "null", HTTP_OK), <<>>)
    /\ written' = NoFile

remove == \E path \in RemotePaths : removeCall(path, <<>>)

\* as removeAfter, comparing the parsed boolean instead of the text
removeAfter_Semantic(m) ==
    /\ IF m.thrown
       THEN Finish(FALSE, m.what, <<>>, m.reply)
       ELSE IF Member(tryParseJson(dataSink.content).v, "boolean") # JBool(TRUE)
       THEN Finish(FALSE, Exception(<<"Can't delete ">> \o op.path), <<>>, m.reply)
       ELSE Finish(TRUE, <<>>, <<>>, m.reply)
    /\ UNCHANGED written

\* remove, after make(req) gave m
removeAfter(m) ==
    /\ IF m.thrown
       THEN Finish(FALSE, m.what, <<>>, m.reply)
       ELSE IF dataSink.content # BooleanTrue
       THEN Finish(FALSE, Exception(<<"Can't delete ">> \o op.path), <<>>, m.reply)
       ELSE Finish(TRUE, <<>>, <<>>, m.reply)
    /\ UNCHANGED written

removeEnd ==
    /\ pc = "perform"
    /\ xfer.phase = "done"
    /\ op.name = "remove"
    /\ removeAfter(MakeReturn(req, reply, xfer))

\* as renameCall, with the new path percent-encoded as the remote path is
renameCall_EncodedDestination(path, newRemotePath) ==
    /\ Enter("rename", path, NoSource, NoStream)
    /\ StartMake(Request("PUT",
                         makeUrl(urlBuilder, path, "RENAME") \o <<"&destination=">>
                             \o urlEncode(newRemotePath),
                         FALSE, "oss", "null", HTTP_OK), <<>>)
    /\ written' = NoFile

\* rename: the PUT op=RENAME request with the new path appended as it is
renameCall(path, newRemotePath) ==
    /\ Enter("rename", path, NoSource, NoStream)
    /\ StartMake(Request("PUT",
                         makeUrl(urlBuilder, path, "RENAME") \o <<"&destination=">>
                             \o newRemotePath,
                         FALSE, "oss", "null", HTTP_OK), <<>>)
    /\ written' = NoFile

rename ==
    \E path \in RemotePaths, newRemotePath \in RemotePaths : renameCall(path, newRemotePath)

\* rename, after make(req) gave m
renameAfter(m) ==
    /\ IF m.thrown
       THEN Finish(FALSE, m.what, <<>>, m.reply)
       ELSE IF dataSink.content # BooleanTrue
       THEN Finish(FALSE, Exception(<<"Can't rename ">> \o op.path), <<>>, m.reply)
       ELSE Finish(TRUE, <<>>, <<>>, m.reply)
    /\ UNCHANGED written

renameEnd ==
    /\ pc = "perform"
    /\ xfer.phase = "done"
    /\ op.name = "rename"
    /\ renameAfter(MakeReturn(req, reply, xfer))

\* Request, Reply and the operation's locals end with the call; the client
\* (its UrlBuilder and its easy handle) stays for the caller's next call
CallEnds ==
    /\ pc = "returned"
    /\ pc' = "idle"
    /\ op' = NoOperation
    /\ req' = NoRequest
    /\ reply' = ReplyNew
    /\ xfer' = NoXfer
    /\ wire' = <<>>
    /\ dataSource' = NoSource
    /\ dataSink' = NoStream
    /\ result' = NoResult
    /\ UNCHANGED <<peer, process, urlBuilder, curl, written>>

\* HttpClient::make called with a POST descriptor: Request::Type has the
\* value, no operation of Client uses it
makePost ==
    \E url \in {DataNodeUrl, makeUrl(urlBuilder, <<"/">>, "APPEND")},
       followRedirect \in BOOLEAN :
        /\ pc = "idle"
        /\ op' = Operation("make", 1, <<>>)
        /\ dataSource' = NoSource
        /\ dataSink' = NoStream
        /\ written' = written
        /\ UNCHANGED <<peer, process, urlBuilder>>
        /\ IF MakeSetupThrows(Request("POST", url, followRedirect, "null", "null", HTTP_OK))
           THEN /\ pc' = "returned"
                /\ curl' = MakeSetup(curl, Request("POST", url, followRedirect, "null",
                                                   "null", HTTP_OK))
                /\ req' = Request("POST", url, followRedirect, "null", "null", HTTP_OK)
                /\ reply' = ReplyNew
                /\ result' = [op |-> "make", ok |-> FALSE, files |-> <<>>,
                              what |-> Exception(<<"Post requests not implemented">>)]
                /\ UNCHANGED <<xfer, wire>>
           ELSE /\ pc' = "perform"
                /\ result' = NoResult
                /\ StartMake(Request("POST", url, followRedirect, "null", "null", HTTP_OK),
                             <<>>)

\* a Client as its constructor leaves it, with the thread that uses it: its
\* UrlBuilder, its HttpClient with the easy handle and the header list, and
\* no call in progress
Client(thread, userName) ==
    [thread |-> thread, urlBuilder |-> UrlBuilderNew("host", "50070", userName),
     curl |-> HttpClientNew, pc |-> "idle", op |-> NoOperation, req |-> NoRequest,
     reply |-> ReplyNew, xfer |-> NoXfer, wire |-> <<>>, dataSource |-> NoSource,
     dataSink |-> NoStream, result |-> NoResult, written |-> NoFile]

\* no other thread has a client (thread 0)
NoPeer == Client(0, <<>>)

\* the client of the second thread, constructed without a user name
SecondClient == Client(2, <<>>)

\* the client of the running thread, as peer holds the other one
Running ==
    [thread |-> 3 - peer.thread, urlBuilder |-> urlBuilder, curl |-> curl, pc |-> pc, op |-> op,
     req |-> req, reply |-> reply, xfer |-> xfer, wire |-> wire, dataSource |-> dataSource,
     dataSink |-> dataSink, result |-> result, written |-> written]

\* as Switch, for clients that all use one easy handle (a handle that is
\* static instead of a member)
Switch_SharedHandle ==
    /\ peer.thread # 0
    /\ peer' = Running
    /\ urlBuilder' = peer.urlBuilder
    /\ curl' = curl
    /\ pc' = peer.pc
    /\ op' = peer.op
    /\ req' = peer.req
    /\ reply' = peer.reply
    /\ xfer' = peer.xfer
    /\ wire' = peer.wire
    /\ dataSource' = peer.dataSource
    /\ dataSink' = peer.dataSink
    /\ result' = peer.result
    /\ written' = peer.written
    /\ UNCHANGED process

\* the other thread runs: it goes on with its own Client (m_urlBuilder,
\* m_httpClient with m_curl and m_activeHttpHeaders) and the locals of its
\* call, the thread that ran keeps its own
Switch ==
    /\ peer.thread # 0
    /\ peer' = Running
    /\ urlBuilder' = peer.urlBuilder
    /\ curl' = peer.curl
    /\ pc' = peer.pc
    /\ op' = peer.op
    /\ req' = peer.req
    /\ reply' = peer.reply
    /\ xfer' = peer.xfer
    /\ wire' = peer.wire
    /\ dataSource' = peer.dataSource
    /\ dataSink' = peer.dataSink
    /\ result' = peer.result
    /\ written' = peer.written
    /\ UNCHANGED process

\* one Client was constructed, by the first thread
Constructed ==
    Process("set", 1, [t \in Threads |-> IF t = 1 THEN "constructed" ELSE "start"])

Init ==
    /\ process = Constructed
    /\ urlBuilder \in {UrlBuilderNew("host", "50070", u) : u \in UserNames}
    /\ curl = HttpClientNew
    /\ pc = "idle"
    /\ op = NoOperation
    /\ req = NoRequest
    /\ reply = ReplyNew
    /\ xfer = NoXfer
    /\ wire = <<>>
    /\ dataSource = NoSource
    /\ dataSink = NoStream
    /\ result = NoResult
    /\ written = NoFile
    /\ peer = NoPeer

Next ==
    \/ writeFile
    \/ writeFileStep2
    \/ writeFileEnd
    \/ readFile
    \/ readFileEnd
    \/ makeDir
    \/ makeDirEnd
    \/ listDir
    \/ listDirEnd
    \/ remove
    \/ removeEnd
    \/ rename
    \/ renameEnd
    \/ ReadCallback
    \/ ReceiveResponse
    \/ WriteCallback
    \/ TransportFail
    \/ CallEnds

Spec == Init /\ [][Next]_vars

\* threads constructing clients at the same time, from the start of the process
ConstructInit ==
    /\ process = Process("clear", 0, [t \in Threads |-> "start"])
    /\ urlBuilder = UrlBuilderNew("host", "50070", <<>>)
    /\ curl = HttpClientNew
    /\ pc = "idle"
    /\ op = NoOperation
    /\ req = NoRequest
    /\ reply = ReplyNew
    /\ xfer = NoXfer
    /\ wire = <<>>
    /\ dataSource = NoSource
    /\ dataSink = NoStream
    /\ result = NoResult
    /\ written = NoFile
    /\ peer = NoPeer

ConstructNext ==
    \/ \E t \in Threads : CallOnce(t)
    \/ \E t \in Threads : GlobalInit(t)
    \/ \E t \in Threads : EasyInit(t)

ConstructSpec == ConstructInit /\ [][ConstructNext]_vars

\* one call of an operation with any path, user name, options and locale,
\* against a gateway that cannot be reached
UrlInit ==
    /\ process = Constructed
    /\ urlBuilder = UrlBuilderNew("host", "50070", <<>>)
    /\ curl = HttpClientNew
    /\ pc = "start"
    /\ op = NoOperation
    /\ req = NoRequest
    /\ reply = ReplyNew
    /\ xfer = NoXfer
    /\ wire = <<>>
    /\ dataSource = NoSource
    /\ dataSink = NoStream
    /\ result = NoResult
    /\ written = NoFile
    /\ peer = NoPeer

\* Client::Client with the user name of its options, in a process that runs
\* in one of the locales
ClientNew ==
    /\ pc = "start"
    /\ pc' = "idle"
    /\ \E userName \in UserNames \cup {<<>>}, locale \in Locales :
         /\ urlBuilder' = UrlBuilderNew("host", "50070", userName)
         /\ process' = [Constructed EXCEPT !.locale = locale]
    /\ curl' = HttpClientNew
    /\ UNCHANGED <<op, req, reply, xfer, wire, dataSource, dataSink, result, written, peer>>

UrlNext ==
    \/ ClientNew
    \/ pc = "idle" /\ \E path \in Paths, opts \in WriteOptions :
           writeFileCall(path, NoSource, opts)
    \/ pc = "idle" /\ \E path \in Paths, opts \in ReadOptions : readFileCall(path, NoStream, opts)
    \/ pc = "idle" /\ \E path \in Paths, opts \in MakeDirOptions : makeDirCall(path, opts)
    \/ pc = "idle" /\ \E path \in Paths : listDirCall(path)
    \/ pc = "idle" /\ \E path \in Paths, opts \in RemoveOptions : removeCall(path, opts)
    \/ pc = "idle" /\ \E path \in Paths, newRemotePath \in Destinations :
           renameCall(path, newRemotePath)
    \/ TransportFail
    \/ writeFileStep2
    \/ readFileEnd
    \/ makeDirEnd
    \/ listDirEnd
    \/ removeEnd
    \/ renameEnd

UrlSpec == UrlInit /\ [][UrlNext]_vars

\* the operations of Client, and HttpClient::make driven with a POST
EngineNext ==
    \/ Next
    \/ makePost

EngineSpec == Init /\ [][EngineNext]_vars

\* the bodies of the gateway where only the course of an exchange matters
LiveBodies == {<<>>, NotJson, EmptyObject}

\* a source of one byte
OneByteSource == IStream(<<"a">>, FALSE, 0)

\* two threads constructed one Client each
TwoConstructed ==
    Process("set", 1, [t \in Threads |-> IF t <= 2 THEN "constructed" ELSE "start"])

\* the first thread's client has a user name and runs first
TwoInit ==
    /\ process = TwoConstructed
    /\ urlBuilder = UrlBuilderNew("host", "50070", <<"alex">>)
    /\ curl = HttpClientNew
    /\ pc = "idle"
    /\ op = NoOperation
    /\ req = NoRequest
    /\ reply = ReplyNew
    /\ xfer = NoXfer
    /\ wire = <<>>
    /\ dataSource = NoSource
    /\ dataSink = NoStream
    /\ result = NoResult
    /\ written = NoFile
    /\ peer = SecondClient

\* one client per thread, the threads running in any interleaving: the first
\* thread writes or removes a file, the second reads a file or lists a
\* directory
TwoNext ==
    \/ Switch
    \/ peer.thread = 2 /\ \E path \in RemotePaths : writeFileCall(path, OneByteSource, <<>>)
    \/ peer.thread = 2 /\ remove
    \/ peer.thread = 1 /\ \E path \in RemotePaths : readFileCall(path, NoStream, <<>>)
    \/ peer.thread = 1 /\ listDir
    \/ ReadCallback
    \/ Receive(LiveBodies)
    \/ WriteCallback
    \/ TransportFail
    \/ writeFileStep2
    \/ writeFileEnd
    \/ readFileEnd
    \/ listDirEnd
    \/ removeEnd

TwoSpec == TwoInit /\ [][TwoNext]_vars

\* what goes on by itself once an operation was called: the transport asks
\* for and hands over bytes, the gateway answers or the exchange fails, and
\* the operation continues after curl_easy_perform
Progress ==
    \/ ReadCallback
    \/ Receive(LiveBodies)
    \/ WriteCallback
    \/ TransportFail
    \/ writeFileStep2
    \/ writeFileEnd
    \/ readFileEnd
    \/ makeDirEnd
    \/ listDirEnd
    \/ removeEnd
    \/ renameEnd

\* a client used for one operation, or for a writeFile and one operation
\* after it
LiveNext ==
    \/ curl.readdata = "null" /\ writeFile
    \/ readFile
    \/ makeDir
    \/ listDir
    \/ remove
    \/ rename
    \/ op.name = "writeFile" /\ curl.readdata = "stale" /\ CallEnds
    \/ Progress

\* the client under a gateway and a transport that complete or fail every
\* exchange, with a calling thread that keeps running
LiveSpec == Init /\ [][LiveNext]_vars /\ WF_vars(Progress)

(***************************************************************************)
(* Properties.                                                             *)
(***************************************************************************)
\* a call is in progress or has just ended
InCall == pc \in {"perform", "returned"}

\* the call name has returned or raised and its outcome is in result
Returned(name) == pc = "returned" /\ op.name = name

\* the last exchange of the call ended with the gateway's complete answer
Answered(status, body) ==
    xfer.code = "CURLE_OK" /\ xfer.status = status /\ xfer.body = body

\* the text occurs in the message, as a piece of it or inside a JSON string
Mentions(what, text) ==
    \E i \in 1..Len(what) :
        what[i] = text \/ (what[i] \in DOMAIN StrOf /\ StrOf[what[i]] = text)

C2_NoRedirectIsProtocolError ==
    /\ (Returned("writeFile") /\ op.step = 1
          /\ Answered(HTTP_TEMPORARY_REDIRECT, xfer.body) /\ xfer.location = NoUrl) =>
           /\ ~result.ok
           /\ result.what = Exception(<<"protocol error: no redirection to data node">>)
           /\ Len(wire) = 1
    /\ (op.name = "writeFile" /\ op.step = 2) => op.first.location # NoUrl

C2_Witness ==
    /\ Returned("writeFile")
    /\ op.step = 1
    /\ Answered(HTTP_TEMPORARY_REDIRECT, <<>>)
    /\ xfer.location = NoUrl
    /\ ~result.ok

\* C3: when readFile returns without error the sink holds exactly the body
\* of the final response, which had status 200, whatever the gateway did
\* before, redirects with bodies of their own included.
C3_SinkHoldsFinalBody ==
    (Returned("readFile") /\ result.ok) =>
        /\ xfer.status = HTTP_OK
        /\ dataSink.content = xfer.body
        /\ dataSink.good

C3_Witness ==
    /\ Returned("readFile")
    /\ result.ok
    /\ xfer.hops > 0
    /\ xfer.ignored
    /\ Len(xfer.body) = MaxLen
    /\ dataSink.limited

\* C4: a readFile that follows a successful writeFile of data and is served
\* what the gateway stored then leaves exactly data in its sink, for every
\* payload (the empty one too) and every chunking by the transport.
C4_WriteThenReadIsIdentity ==
    (Returned("readFile") /\ result.ok /\ written.set /\ xfer.body = written.stored) =>
        dataSink.content = written.data

C4_Witness ==
    /\ Returned("readFile")
    /\ result.ok
    /\ written.set
    /\ xfer.body = written.stored
    /\ Len(written.data) = MaxLen

\* C5: makeDir, remove and rename succeed only when the final status is 200
\* and the whole body, over all its chunks, is the text {"boolean":true}.
C5_BooleanResultIsStrict ==
    (pc = "returned" /\ op.name \in {"makeDir", "remove", "rename"} /\ result.ok) =>
        Answered(HTTP_OK, BooleanTrue)

C5_Witness ==
    /\ Returned("remove")
    /\ Answered(HTTP_OK, BooleanSpaced)
    /\ ~result.ok
    /\ result.what = Exception(<<"Can't delete ">> \o op.path)

\* C6: when the gateway's complete answer to the last request of any
\* operation is 403 with the AccessControlException body, the operation
\* raises an error whose message contains "Permission denied".
C6_PermissionDeniedIsReported ==
    (pc = "returned" /\ Answered(403, PermissionDenied)) =>
        /\ ~result.ok
        /\ Mentions(result.what, "Permission denied")

C6_Witness ==
    /\ Returned("writeFile")
    /\ op.step = 2
    /\ Answered(403, PermissionDenied)
    /\ Len(xfer.sent) > 0

\* the body is no JSON text or holds no FileStatuses.FileStatus array
LacksListing(body) ==
    \/ ~tryParseJson(body).ok
    \/ Member(Member(tryParseJson(body).v, "FileStatuses"), "FileStatus").t # "array"

\* C7: listDir raises the parse error whenever the body of the 200 answer is
\* no JSON text or lacks the FileStatuses.FileStatus array.
C7_BadListingIsParseError ==
    (Returned("listDir") /\ Answered(HTTP_OK, xfer.body) /\ LacksListing(xfer.body)) =>
        /\ ~result.ok
        /\ result.what = Exception(<<"Can't parse dir listing">>)

\* what listDir is to return for the elements entries
ExpectedFiles(entries) ==
    [i \in 1..Len(entries) |->
        [entries[i] EXCEPT !.type = IF @ = "FILE" THEN "FILE" ELSE "DIRECTORY"]]

\* C8: for a well-formed listing listDir returns one FileStatus per element,
\* in the array's order, type FILE exactly for the type string "FILE" and
\* DIRECTORY otherwise, every other field with the element's value.
C8_ListingIsMapped ==
    \A entries \in Listings :
        (Returned("listDir") /\ Answered(HTTP_OK, ListingText(entries))) =>
            result.ok /\ result.files = ExpectedFiles(entries)

C8_Witness ==
    /\ Returned("listDir")
    /\ Answered(HTTP_OK, ListingText(<<LinkEntry, FileEntry>>))
    /\ Len(result.files) = 2
    /\ result.files[1].type = "DIRECTORY"
    /\ result.files[2].type = "FILE"

\* C9: when the caller's sink fails while a response of the expected status
\* is streamed, readFile raises an error that was recorded in the reply by
\* the callback and is not the transport's own message.
C9_SinkFailureIsCallbackError ==
    (Returned("readFile") /\ ~dataSink.good /\ xfer.status = HTTP_OK) =>
        /\ ~result.ok
        /\ reply.clientError # <<>>
        /\ result.what = Exception(reply.clientError)
        /\ result.what # Exception(curl_easy_strerror(xfer.code))

\* C10: when the caller's source fails with a read error during step 2,
\* writeFile raises; it never succeeds on the bytes read before the failure.
C10_SourceFailureIsError ==
    (Returned("writeFile") /\ op.step = 2 /\ dataSource.state = "bad") => ~result.ok

\* the body is a JSON object with a RemoteException member
HasRemoteException(body) ==
    /\ tryParseJson(body).ok
    /\ IsMember(tryParseJson(body).v, "RemoteException")

\* the message member of the body's RemoteException, "" when there is none
RemoteMessage(body) ==
    AsString(Member(Member(tryParseJson(body).v, "RemoteException"), "message"))

\* the unexpected-status message for a status and the captured body
UnexpectedStatus(status, body) ==
    Exception(<<"unexpected server response code: ", CodeText(status)>>
              \o (IF body # <<>> THEN <<" (">> \o body \o <<")">> ELSE <<>>))

\* C11: when the complete answer has another status than the request
\* expects, the operation raises the remote-exception error if the body is a
\* JSON object with a RemoteException member, and otherwise (no JSON, no
\* body, other JSON) the unexpected-status error with the status code and,
\* when there is one, the body text.
C11_UnexpectedStatusIsReported ==
    (pc = "returned" /\ Answered(xfer.status, xfer.body)
       /\ xfer.status # req.expectedResponseCode) =>
        /\ ~result.ok
        /\ result.what = IF HasRemoteException(xfer.body)
                         THEN Exception(<<"remote error: ", RemoteMessage(xfer.body)>>)
                         ELSE UnexpectedStatus(xfer.status, xfer.body)

\* the requests of log that make() issued: a redirect the transport follows
\* repeats the descriptor against another url
Issued(log) == {i \in 1..Len(log) : log[i].url = log[i].req.url}

\* C12: an operation has no outcome while it runs and exactly one when it
\* ends (success, or one error with its message), which stays until the call
\* is over; it issues one request, writeFile a second one only after its
\* first exchange ended with the expected 307 and a redirect target, redirects
\* followed by the transport not counted; no request follows a failed one.
C12_OneOutcomeNoRetry ==
    /\ [](/\ pc = "perform" => result = NoResult
          /\ pc = "returned" => /\ result.op = op.name
                                /\ result.ok <=> result.what = <<>>
          /\ pc # "idle" =>
                 /\ Cardinality(Issued(wire)) = op.step
                 /\ op.step <= IF op.name = "writeFile" THEN 2 ELSE 1)
    /\ [][/\ pc = "returned" => pc' = "idle"
          /\ (pc # "idle" /\ Cardinality(Issued(wire')) > Cardinality(Issued(wire))) =>
                 /\ op.name = "writeFile"
                 /\ op.step = 1
                 /\ xfer.phase = "done"
                 /\ Answered(HTTP_TEMPORARY_REDIRECT, xfer.body)
                 /\ xfer.location # NoUrl]_vars

C12_Witness ==
    /\ Returned("writeFile")
    /\ op.step = 2
    /\ Cardinality(Issued(wire)) = 2
    /\ xfer.code = "CURLE_OPERATION_TIMEDOUT"
    /\ ~result.ok

\* C13: a request of type POST given to make() fails at once with the
\* not-implemented error; no exchange is started for it and nothing is sent.
C13_PostIsNotImplemented ==
    (req.type = "POST") =>
        /\ pc = "returned"
        /\ ~result.ok
        /\ result.what = Exception(<<"Post requests not implemented">>)
        /\ wire = <<>>
        /\ xfer.phase = "none"

C13_Witness ==
    /\ pc = "returned"
    /\ req.type = "POST"
    /\ req.url # DataNodeUrl
    /\ curl.customrequest = "DELETE"
    /\ curl.url = req.url

\* the constructors that are inside the lambda given to call_once
InGlobalInit == {t \in Threads : process.ctor[t] = "curl_global_init"}

\* C14: with any number of clients constructed at the same time,
\* curl_global_init completes successfully at most once, no two executions
\* of it overlap, and a constructor reaches curl_easy_init only after that
\* one initialization has completed (and none is running then).
C14_GlobalInitOnce ==
    /\ process.inits <= 1
    /\ Cardinality(InGlobalInit) <= 1
    /\ \A t \in Threads :
           process.ctor[t] \in {"curl_easy_init", "constructed"} =>
               /\ process.inits = 1
               /\ process.curlInitFlag = "set"
               /\ InGlobalInit = {}

C14_Witness ==
    /\ process.inits = 1
    /\ \E t \in Threads : process.ctor[t] = "thrown"
    /\ Cardinality({t \in Threads : process.ctor[t] = "constructed"}) >= 2

\* where the query of a request url starts
QueryStart(url) == CHOOSE k \in 1..Len(url) : url[k] \in {"?op=", "?user.name="}

\* the encoded path in a request url, between the prefix and the query
EncodedPath(url) == SubSeq(url, Len(urlBuilder.m_prefix) + 1, QueryStart(url) - 1)

UpperHexDigit(d) ==
    <<"0", "1", "2", "3", "4", "5", "6", "7", "8", "9", "A", "B", "C", "D", "E", "F">>[d + 1]

\* one byte of a path as it is to be encoded: itself, or % and two digits
ClaimedEscape(c) ==
    IF c \in AsciiAlnum \cup {"-", "_", ".", "~", "/"}
    THEN <<c>>
    ELSE <<"%", UpperHexDigit(ByteValue[c] \div 16), UpperHexDigit(ByteValue[c] % 16)>>

RECURSIVE ClaimedEncoding(_)
ClaimedEncoding(path) ==
    IF path = <<>> THEN <<>> ELSE ClaimedEscape(Head(path)) \o ClaimedEncoding(Tail(path))

\* C15: the encoded path of a request url is the path with every byte
\* encoded on its own: ASCII letters and digits and - _ . ~ / unchanged,
\* every other byte as % and the two uppercase hexadecimal digits of its
\* unsigned value (so that ? & = # % and space are never left as they are).
C15_UrlEncodeByteWise ==
    (pc = "returned") => EncodedPath(wire[1].req.url) = ClaimedEncoding(op.path)

\* C15, the part on the reserved characters alone
C15_ReservedAreEscaped ==
    InCall =>
        \A i \in 1..Len(EncodedPath(wire[1].req.url)) :
            /\ EncodedPath(wire[1].req.url)[i] \notin {"?", "&", "=", "#", " "}
            /\ EncodedPath(wire[1].req.url)[i] = "%" =>
                   i + 2 <= Len(EncodedPath(wire[1].req.url))

HexValue(d) ==
    CASE d \in {"0", "1", "2", "3", "4", "5", "6", "7", "8", "9"} ->
           CHOOSE n \in 0..9 : UpperHexDigit(n) = d
      [] d \in {"A", "B", "C", "D", "E", "F"} -> CHOOSE n \in 10..15 : UpperHexDigit(n) = d
      [] d \in {"a", "b", "c", "d", "e", "f"} -> CHOOSE n \in 10..15 : HexDigit(n) = d
      [] OTHER -> -1

\* the byte of a value
ByteOf(n) ==
    IF \E c \in DOMAIN ByteValue : ByteValue[c] = n
    THEN CHOOSE c \in DOMAIN ByteValue : ByteValue[c] = n
    ELSE "<byte>"

\* percent-decoding: % and two hexadecimal digits give one byte, everything
\* else stands for itself
RECURSIVE PercentDecode(_)
PercentDecode(text) ==
    IF text = <<>>
    THEN <<>>
    ELSE IF Head(text) = "%" /\ Len(text) >= 3 /\ HexValue(text[2]) >= 0
            /\ HexValue(text[3]) >= 0
    THEN <<ByteOf(16 * HexValue(text[2]) + HexValue(text[3]))>>
             \o PercentDecode(SubSeq(text, 4, Len(text)))
    ELSE <<Head(text)>> \o PercentDecode(Tail(text))

\* C16: percent-decoding the encoded path of a request url gives the remote
\* path the operation was called with.
C16_DecodeOfEncodeIsPath ==
    InCall => PercentDecode(EncodedPath(wire[1].req.url)) = op.path

C16_Witness ==
    /\ InCall
    /\ op.path = <<"%", "0xC3">>
    /\ process.locale = "C"
    /\ EncodedPath(wire[1].req.url) = <<"%", "2", "5", "%", "c", "3">>

\* the WebHDFS operation an operation of Client asks for
OperationName(name) ==
    CASE name = "writeFile" -> "CREATE"
      [] name = "readFile" -> "OPEN"
      [] name = "makeDir" -> "MKDIRS"
      [] name = "listDir" -> "LISTSTATUS"
      [] name = "remove" -> "DELETE"
      [] OTHER -> "RENAME"

\* the extra parameters an operation of Client may add
ExtraFragments(name) ==
    CASE name = "writeFile" -> {toQueryString(o) : o \in WriteOptions}
      [] name = "readFile" -> {toQueryString(o) : o \in ReadOptions}
      [] name = "makeDir" -> {toQueryString(o) : o \in MakeDirOptions}
      [] name = "listDir" -> {<<>>}
      [] name = "remove" -> {toQueryString(o) : o \in RemoveOptions}
      [] OTHER -> {<<"&destination=">> \o p : p \in Destinations}

\* C17: the url of the request an operation builds is the prefix
\* http://host:port/webhdfs/v1, the encoded path, the user.name parameter
\* exactly when a user name was configured, op=OPERATION and the
\* operation's extra parameters.
C17_RequestUrlFormat ==
    InCall =>
        \E extra \in ExtraFragments(op.name) :
            wire[1].req.url =
                <<"http://", "host", ":", "50070", "/webhdfs/v1">> \o urlEncode(op.path)
                    \o (IF urlBuilder.m_userName # <<>>
                        THEN <<"?user.name=">> \o urlBuilder.m_userName \o <<"&op=">>
                        ELSE <<"?op=">>)
                    \o <<OperationName(op.name)>> \o extra

C17_Witness ==
    /\ pc = "returned"
    /\ op.name = "remove"
    /\ urlBuilder.m_userName = <<>>
    /\ wire[1].url = <<"http://", "host", ":", "50070", "/webhdfs/v1", "/", "a", "?op=",
                       "DELETE", "&recursive=", "true">>

\* C18: every request leaves with the verb of its descriptor (GET for
\* readFile and listDir, PUT for writeFile, makeDir and rename, DELETE for
\* remove), whatever the client was used for before.
C18_VerbIsDescriptorMethod ==
    \A i \in 1..Len(wire) :
        /\ wire[i].verb = wire[i].req.type
        /\ wire[i].req.type = CASE op.name \in {"readFile", "listDir"} -> "GET"
                                [] op.name = "remove" -> "DELETE"
                                [] OTHER -> "PUT"

\* C19: a request whose descriptor has no data source is sent without a
\* body, and the read callback is not run for it: nothing is sent from a
\* source that an earlier request installed on the handle.
C19_NoSourceNoBody ==
    \A i \in 1..Len(wire) :
        (wire[i].req.pDataSource = "null") =>
            /\ ~wire[i].body
            /\ (i = Len(wire) /\ pc # "idle") => xfer.sent = <<>> /\ xfer.phase # "send"

\* the header overrides a descriptor is to be sent with
ShapeHeaders(rq) ==
    CASE rq.type = "GET" -> <<"Expect:">>
      [] rq.type = "PUT" /\ rq.pDataSource # "null" ->
           <<"Expect:", "Transfer-Encoding: chunked">>
      [] OTHER -> <<"Expect:", "Transfer-Encoding:">>

\* C20, the parts on the header overrides and on the length of a PUT
C20_HeadersAndPutLength ==
    \A i \in 1..Len(wire) :
        /\ wire[i].headers = ShapeHeaders(wire[i].req)
        /\ wire[i].req.type = "PUT" =>
               wire[i].infilesize = IF wire[i].req.pDataSource # "null" THEN -1 ELSE 0

\* C20: what the transport is handed for a request follows from the
\* descriptor's method and from whether it has a source, whatever was sent
\* before: a PUT with a source is a chunked upload of unknown length with
\* Expect suppressed, a PUT without one has length 0 with Expect and
\* Transfer-Encoding suppressed, a GET suppresses Expect only, a DELETE
\* suppresses Expect and Transfer-Encoding; only a PUT with a source is an
\* upload with a body, and no header of an earlier request is in effect.
C20_ShapeFollowsDescriptor ==
    \A i \in 1..Len(wire) :
        /\ wire[i].headers = ShapeHeaders(wire[i].req)
        /\ wire[i].req.type = "PUT" =>
               wire[i].infilesize = IF wire[i].req.pDataSource # "null" THEN -1 ELSE 0
        /\ wire[i].body <=> (wire[i].req.type = "PUT" /\ wire[i].req.pDataSource # "null")

\* C21, for the exchanges the transport reports as failed
C21_FailedExchangeRaisesRecorded ==
    (pc = "returned" /\ reply.clientError # <<>> /\ xfer.code # "CURLE_OK") =>
        /\ ~result.ok
        /\ result.what = Exception(reply.clientError)
        /\ result.what # Exception(curl_easy_strerror(xfer.code))

\* C21: when a body-streaming callback recorded an error during the last
\* exchange of an operation, the operation fails with the recorded message
\* and not with the transport's, whatever completion code the transport
\* reports (CURLE_OK included).
C21_RecordedCallbackErrorIsRaised ==
    (pc = "returned" /\ reply.clientError # <<>>) =>
        /\ ~result.ok
        /\ result.what = Exception(reply.clientError)
        /\ result.what # Exception(curl_easy_strerror(xfer.code))

\* C22: while and after an exchange whose response has another status than
\* the request expects, the sink of the request (the caller's for readFile)
\* has received no byte; once the exchange has completed, the diagnostic
\* buffer holds the whole body and the operation fails.
C22_UnexpectedStatusBypassesSink ==
    (InCall /\ xfer.status # 0 /\ xfer.status # req.expectedResponseCode) =>
        /\ dataSink.content = <<>>
        /\ dataSink.good
        /\ (xfer.phase = "done" /\ xfer.code = "CURLE_OK") =>
               reply.unexpectedResponseContent = xfer.body
        /\ pc = "returned" => ~result.ok

C22_Witness ==
    /\ Returned("readFile")
    /\ Answered(403, PermissionDenied)
    /\ xfer.hops > 0
    /\ dataSink.limited
    /\ dataSink.content = <<>>
    /\ reply.unexpectedResponseContent = PermissionDenied
    /\ ~result.ok

\* step 2 of writeFile, the upload from the caller's source
InUpload == InCall /\ op.name = "writeFile" /\ op.step = 2

\* C23: during the upload of writeFile every call of the read callback
\* returns the number of bytes it copied from the source, at most the size
\* of the transport's buffer, and 0 once the source is no longer good; what
\* the transport was handed so far is the source's content up to the source's
\* position, and all of it once the source reported end of stream; each
\* step extends what was handed over by at most a buffer.
C23_ReadCallbackForwardsSource ==
    /\ [](InUpload =>
            /\ xfer.sent = SubSeq(dataSource.data, 1, dataSource.pos)
            /\ \A dataSize \in 1..BufCap :
                   /\ streamReadCallback(dataSource, dataSize).ret <= dataSize
                   /\ streamReadCallback(dataSource, dataSize).ret
                          = streamReadCallback(dataSource, dataSize).stream.pos - dataSource.pos
                   /\ SubSeq(streamReadCallback(dataSource, dataSize).buffer, 1,
                             streamReadCallback(dataSource, dataSize).ret)
                          = SubSeq(dataSource.data, dataSource.pos + 1,
                                   streamReadCallback(dataSource, dataSize).stream.pos)
                   /\ dataSource.state # "good" =>
                          streamReadCallback(dataSource, dataSize).ret = 0
            /\ (xfer.phase # "send" /\ xfer.code = "CURLE_OK") =>
                   /\ dataSource.state # "good"
                   /\ dataSource.state = "eof" => xfer.sent = dataSource.data)
    /\ [][(InUpload /\ InUpload' /\ xfer'.sent # xfer.sent) =>
              /\ Len(xfer'.sent) - Len(xfer.sent) \in 1..BufCap
              /\ SubSeq(xfer'.sent, 1, Len(xfer.sent)) = xfer.sent]_vars

C23_Witness ==
    /\ Returned("writeFile")
    /\ op.step = 2
    /\ result.ok
    /\ Len(dataSource.data) = MaxLen
    /\ ~dataSource.failing
    /\ dataSource.state = "eof"
    /\ xfer.sent = dataSource.data

\* C24: the redirect target of a reply is set only for a request that does
\* not follow redirects and whose exchange completed with the redirect
\* status and a target, which it then is; the requests of readFile and
\* listDir follow redirects, also on the wire, and their reply's redirect
\* target stays empty.
C24_RedirectTargetOnlyUnfollowed ==
    /\ reply.redirectUrl # NoUrl =>
           /\ ~req.followRedirect
           /\ pc = "returned"
           /\ Answered(HTTP_TEMPORARY_REDIRECT, xfer.body)
           /\ xfer.location = reply.redirectUrl
    /\ (InCall /\ op.name \in {"readFile", "listDir"}) =>
           /\ req.followRedirect
           /\ \A i \in 1..Len(wire) : wire[i].follow
           /\ reply.redirectUrl = NoUrl

C24_Witness ==
    /\ Returned("makeDir")
    /\ Answered(HTTP_TEMPORARY_REDIRECT, <<>>)
    /\ reply.redirectUrl = DataNodeUrl
    /\ ~result.ok

\* the handle would send a body from the source an earlier call left on it
StaleUpload == curl.readdata = "stale" /\ WireSendsBody(curl)

\* C25, for the exchanges that do not read from a source left by an earlier
\* call
C25_TerminatesWithoutStaleSource ==
    (pc = "perform" /\ ~StaleUpload) ~> (pc = "returned")

\* C25: with a finite source, and a gateway and transport that complete or
\* fail every exchange, every operation that was called returns or raises.
C25_EveryOperationEnds ==
    (pc = "perform") ~> (pc = "returned")

\* the client of a thread, whether the thread runs or not
ClientOfThread(t) == IF peer.thread = t THEN peer ELSE Running

\* the requests of client c were built by its own UrlBuilder
OwnUrls(c) ==
    \A i \in 1..Len(c.wire) :
        IF c.wire[i].req.url = DataNodeUrl
        THEN c.op.step = 2 /\ i = 2
        ELSE /\ Len(c.wire[i].req.url) > Len(c.urlBuilder.m_prefix)
             /\ SubSeq(c.wire[i].req.url, 1, Len(c.urlBuilder.m_prefix)) = c.urlBuilder.m_prefix
             /\ (\E k \in 1..Len(c.wire[i].req.url) : c.wire[i].req.url[k] = "?user.name=")
                    <=> c.urlBuilder.m_userName # <<>>

\* the requests, the reply and the outcome of a client that reads files and
\* lists directories only, as they are when the client is the only one
ReaderAlone(c) ==
    /\ \A i \in 1..Len(c.wire) :
           /\ c.wire[i].verb = "GET"
           /\ ~c.wire[i].body
           /\ c.wire[i].headers = <<"Expect:">>
           /\ c.wire[i].follow
    /\ c.pc # "idle" => c.curl.url = c.req.url /\ c.curl.httpheader = <<"Expect:">>
    /\ c.xfer.location = NoUrl
    /\ c.xfer.sent = <<>>
    /\ c.reply.redirectUrl = NoUrl
    /\ c.pc = "returned" =>
           /\ c.result.op = c.op.name
           /\ c.xfer.code = "CURLE_OK" => c.reply.responseCode = c.xfer.status
           /\ c.result.ok => /\ c.xfer.code = "CURLE_OK"
                             /\ c.xfer.status = HTTP_OK
                             /\ c.op.name = "readFile" => c.dataSink.content = c.xfer.body
           /\ (c.op.name = "readFile" /\ c.xfer.code = "CURLE_OK" /\ c.xfer.status = HTTP_OK) =>
                  c.result.ok

\* C26: with one client per thread and the threads running in any
\* interleaving, each client sends the requests its own UrlBuilder built;
\* the client that only reads sends them as a client alone does (GET, no
\* body, Expect suppressed, redirects followed) and gets the reply and the
\* outcome of its own exchange, whatever the other client leaves on its
\* handle; a step of one thread changes neither the other thread's client
\* nor the state of the process, of which the clients share the once flag.
C26_ClientsDoNotInterfere ==
    /\ [](/\ OwnUrls(ClientOfThread(1))
          /\ OwnUrls(ClientOfThread(2))
          /\ ReaderAlone(ClientOfThread(2))
          /\ ClientOfThread(1).curl.readdata # "null" => ClientOfThread(1).op.step = 2
          /\ ClientOfThread(2).curl.customrequest = "")
    /\ [][/\ process' = process
          /\ peer'.thread = peer.thread => peer' = peer]_vars

C26_Witness ==
    /\ ClientOfThread(2).pc = "returned"
    /\ ClientOfThread(2).op.name = "readFile"
    /\ ClientOfThread(2).result.ok
    /\ ClientOfThread(2).xfer.hops > 0
    /\ ClientOfThread(2).dataSink.content = NotJson
    /\ ClientOfThread(1).pc = "perform"
    /\ ClientOfThread(1).op.name = "remove"
    /\ ClientOfThread(1).curl.customrequest = "DELETE"
    /\ ClientOfThread(1).xfer.phase = "recv"

\* where the destination parameter starts in a request url
DestinationStart(url) == CHOOSE k \in 1..Len(url) : url[k] = "&destination="

====
